---- MODULE Spec2Model ----
(***************************************************************************)
(* Contacts-management REST backend (FastAPI + SQLAlchemy + redis).        *)
(* The store (users, contacts), the redis session cache, the queue of      *)
(* background mail tasks and the wall clock are the state; every HTTP      *)
(* handler is one action.  `cloud` is the set of images stored at the      *)
(* image host.  `last` records the request that was served last and its    *)
(* response.  `procs` holds the requests that are in flight where a        *)
(* handler is followed step by step; it is empty where handlers are        *)
(* atomic.                                                                 *)
(***************************************************************************)
EXTENDS Integers, Sequences, FiniteSets, TLC

VARIABLES users, contacts, nextContactId, cache, cloud, mailq, now, last,
          procs

vars == <<users, contacts, nextContactId, cache, cloud, mailq, now, last, procs>>

(***************************************************************************)
(* Bounds of the model.                                                    *)
(***************************************************************************)
MaxTicks == 2
MaxMail == 1
MaxContactId == 2
MaxDays == 1

(***************************************************************************)
(* Input domains.                                                          *)
(***************************************************************************)
Usernames == {"alice", "bob"}
Emails == {"a@x.io", "b@x.io"}
Passwords == {"pw1", "pw2"}

\* An address nobody registers: the subject of a signed token whose account
\* is not in the store.
GhostEmail == "ghost@x.io"

\* Keys of the session cache (user:<email>).
CacheKeys == Emails \cup {GhostEmail}

(***************************************************************************)
(* Program constants.                                                      *)
(***************************************************************************)
AccessExpireMinutes == 15
EmailExpireMinutes == 60
CacheTtlSeconds == 900
BirthdayWindowDays == 7
MinutesPerDay == 24 * 60
TickMinutes == 45

(***************************************************************************)
(* Password hasher (passlib bcrypt context).                               *)
(***************************************************************************)
get_password_hash(password) == <<"bcrypt", password>>

\* Variant: every password verifies.
verify_password_Any(plain_password, hashed_password) == TRUE

verify_password(plain_password, hashed_password) ==
    hashed_password = <<"bcrypt", plain_password>>

(***************************************************************************)
(* Token codec (python-jose).  A token is its payload plus the state of    *)
(* its signature.                                                          *)
(***************************************************************************)
create_access_token(sub, t) ==
    [sub |-> sub, iat |-> t, exp |-> t + AccessExpireMinutes,
     scope |-> "access_token", sig |-> "valid"]

create_email_token(sub, t) ==
    [sub |-> sub, iat |-> t, exp |-> t + EmailExpireMinutes,
     scope |-> "email_token", sig |-> "valid"]

\* Variant: every token is taken as signed by the service.
jwt_verify_signature_Skipped(token) == TRUE

\* jws.verify inside jwt.decode: the token parses and its signature was made
\* with JWT_SECRET.
jwt_verify_signature(token) == token.sig = "valid"

\* Variant: the exp claim is not verified.
jwt_decode_ok_NoExpiry(token, t) == jwt_verify_signature(token)

\* jwt.decode: the signature is verified, then the exp claim (no leeway).
jwt_decode_ok(token, t) == jwt_verify_signature(token) /\ ~(token.exp < t)

\* Tokens a client can present at time t: tokens the service signed at the
\* epoch or just now, fresh tokens whose signature does not verify, and a
\* string that is not a JWT at all.
IssueTimes(t) == {0, t}

SignedTokens(t) ==
    {create_access_token(e, i) : e \in Emails, i \in IssueTimes(t)}
    \cup {create_email_token(e, i) : e \in Emails, i \in IssueTimes(t)}

ForgedTokens(t) ==
    {[create_access_token("a@x.io", t) EXCEPT !.sig = "invalid"],
     [create_email_token("a@x.io", t) EXCEPT !.sig = "invalid"]}

MalformedToken ==
    [sub |-> "", iat |-> 0, exp |-> 0, scope |-> "", sig |-> "malformed"]

PresentableTokens(t) ==
    SignedTokens(t) \cup ForgedTokens(t) \cup {MalformedToken}

\* Variant: the scope of the decoded token is not looked at.
get_email_from_token_AnyScope(token, t) ==
    IF jwt_decode_ok(token, t)
    THEN [ok |-> TRUE, email |-> token.sub, status |-> 200, detail |-> ""]
    ELSE [ok |-> FALSE, email |-> "", status |-> 422,
          detail |-> "Invalid token for email verification"]

\* Auth.get_email_from_token: the HTTPException for a wrong scope is raised
\* inside the try block but is not a JWTError, so it propagates as 401.
get_email_from_token(token, t) ==
    IF jwt_decode_ok(token, t)
    THEN IF token.scope = "email_token"
         THEN [ok |-> TRUE, email |-> token.sub, status |-> 200, detail |-> ""]
         ELSE [ok |-> FALSE, email |-> "", status |-> 401,
               detail |-> "Invalid scope for token"]
    ELSE [ok |-> FALSE, email |-> "", status |-> 422,
          detail |-> "Invalid token for email verification"]

(***************************************************************************)
(* UserRepository / UserService.                                           *)
(***************************************************************************)
\* Variant: the lookup by email finds no row.
get_user_by_email_NoRow(user_email) == {}

get_user_by_email(user_email) == {u \in users : u.email = user_email}

\* Variant: the username lookup finds nothing.
get_user_by_name_NoMatch(username) == {u \in users : FALSE}

get_user_by_name(username) == {u \in users : u.username = username}

\* Gravatar(email).get_image() builds a URL from the address.
Gravatar(email) == <<"gravatar", email>>

\* UserRepository.create_user: the row gets the next id of the users table
\* (rows are never deleted), the column defaults of User and the avatar.
create_user(username, email, password) ==
    [id |-> Cardinality(users) + 1, username |-> username, email |-> email,
     password |-> password, confirmed_email |-> FALSE,
     avatar |-> Gravatar(email), role |-> "user"]

\* Variant: the update has no WHERE clause.
repo_confirmed_email_AllRows(user_email) ==
    {[u EXCEPT !.confirmed_email = TRUE] : u \in users}

repo_confirmed_email(user_email) ==
    {IF u.email = user_email THEN [u EXCEPT !.confirmed_email = TRUE] ELSE u
       : u \in users}

repo_reset_password(password, email) ==
    {IF u.email = email THEN [u EXCEPT !.password = password] ELSE u
       : u \in users}

(***************************************************************************)
(* Response models (pydantic): a response is serialised only if it has     *)
(* every required field of the endpoint's response_model, otherwise the    *)
(* framework answers 500.                                                  *)
(***************************************************************************)
UserResponse == {"id", "username", "email", "avatar", "role"}

TokenModel == {"refresh_token", "access_token"}

ResponseModelAccepts(model, body) == model \subseteq DOMAIN body

UserResponseBody(u) == [f \in UserResponse |-> u[f]]

NoBody == <<>>

Response(op, req, status, detail, body) ==
    [op |-> op, req |-> req, status |-> status, detail |-> detail,
     body |-> body]

MailTask(u, param) == [email |-> u.email, username |-> u.username,
                       param |-> param]

(***************************************************************************)
(* Session cache (redis) and the current-user resolver.                    *)
(* cache[e] is the set of entries under key "user:e" (empty or one entry). *)
(***************************************************************************)
pickle_dumps(u) == <<"pickle", u>>

pickle_loads(b) == b[2]

\* The expiry of a key that has no time-to-live.
NoExpiry == -1

\* r.set(key, value) alone: the value is replaced and the key is left
\* without a time-to-live (SET discards the one it had).
cache_set(c, email, value) ==
    [c EXCEPT ![email] = {[value |-> value, expire_at |-> NoExpiry]}]

\* r.expire(key, 900) alone, at time t: no effect on a missing key.
cache_expire(c, email, t) ==
    [c EXCEPT ![email] =
        {[x EXCEPT !.expire_at = t + (CacheTtlSeconds \div 60)] : x \in c[email]}]

\* r.set(key, value) followed by r.expire(key, 900): the entry as it is left
\* when both calls have been made at time t.
cache_set_expire(c, email, value, t) ==
    [c EXCEPT ![email] =
        {[value |-> value, expire_at |-> t + (CacheTtlSeconds \div 60)]}]

\* redis drops the keys whose time-to-live has elapsed at time t.
cache_purge(c, t) ==
    [e \in DOMAIN c |->
        {x \in c[e] : x.expire_at = NoExpiry \/ x.expire_at > t}]

\* Variant: the store is queried on every request, the cache only written.
get_current_user_NoCacheRead(token, t) ==
    IF ~jwt_decode_ok(token, t) \/ token.scope # "access_token"
    THEN [user |-> {}, cache |-> cache]
    ELSE LET found == get_user_by_email(token.sub)
         IN IF found = {}
            THEN [user |-> {}, cache |-> cache]
            ELSE [user |-> found,
                  cache |-> cache_set_expire(cache, token.sub,
                               pickle_dumps(CHOOSE u \in found : TRUE), t)]

\* Auth.get_current_user: the resolved user (empty when the request is
\* answered 401 "Could not validate credentials") and the cache it leaves.
get_current_user(token, t) ==
    IF ~jwt_decode_ok(token, t)
    THEN [user |-> {}, cache |-> cache]
    ELSE IF token.scope # "access_token"
    THEN [user |-> {}, cache |-> cache]
    ELSE IF cache[token.sub] = {}
    THEN LET found == get_user_by_email(token.sub)
         IN IF found = {}
            THEN [user |-> {}, cache |-> cache]
            ELSE [user |-> found,
                  cache |-> cache_set_expire(cache, token.sub,
                               pickle_dumps(CHOOSE u \in found : TRUE), t)]
    ELSE [user |-> {pickle_loads(x.value) : x \in cache[token.sub]},
          cache |-> cache]

Unauthorized(op, req) ==
    Response(op, req, 401, "Could not validate credentials", NoBody)

(***************************************************************************)
(* Initial state: empty store, empty cache, nothing served yet.            *)
(***************************************************************************)
Init ==
    /\ users = {}
    /\ contacts = {}
    /\ nextContactId = 1
    /\ cache = [e \in CacheKeys |-> {}]
    /\ cloud = {}
    /\ mailq = <<>>
    /\ now = 0
    /\ last = Response("init", <<>>, 0, "", NoBody)
    /\ procs = <<>>

(***************************************************************************)
(* POST /auth/signup                                                       *)
(***************************************************************************)
signup(username, email, password) ==
    LET req == [username |-> username, email |-> email, password |-> password]
        new_user == create_user(username, email, get_password_hash(password))
    IN
    IF get_user_by_email(email) # {}
    THEN /\ last' = Response("signup", req, 409,
                             "User with this email already exist", NoBody)
         /\ UNCHANGED <<procs, cloud, users, contacts, nextContactId, cache, mailq, now>>
    ELSE IF get_user_by_name(username) # {}
    THEN /\ last' = Response("signup", req, 409,
                             "User with this name already exist", NoBody)
         /\ UNCHANGED <<procs, cloud, users, contacts, nextContactId, cache, mailq, now>>
    ELSE /\ Len(mailq) < MaxMail
         /\ users' = users \cup {new_user}
         /\ mailq' = Append(mailq, MailTask(new_user, FALSE))
         /\ last' = IF ResponseModelAccepts(UserResponse, UserResponseBody(new_user))
                    THEN Response("signup", req, 201, "", UserResponseBody(new_user))
                    ELSE Response("signup", req, 500, "Internal Server Error", NoBody)
         /\ UNCHANGED <<procs, cloud, contacts, nextContactId, cache, now>>

\* Variant: login without the check of the confirmed flag.
login_NoConfirmCheck(username, password) ==
    LET req == [username |-> username, password |-> password]
        found == get_user_by_name(username)
        user == CHOOSE u \in found : TRUE
        access_token == create_access_token(user.email, now)
        body == [access_token |-> access_token, token_type |-> "bearer"]
    IN
    /\ last' =
         IF found = {} \/ ~verify_password(password, user.password)
         THEN Response("login", req, 401, "Invalid login or password", NoBody)
         ELSE IF ResponseModelAccepts(TokenModel, body)
         THEN Response("login", req, 200, "", body)
         ELSE Response("login", req, 500, "Internal Server Error", NoBody)
    /\ UNCHANGED <<procs, cloud, users, contacts, nextContactId, cache, mailq, now>>

(***************************************************************************)
(* POST /auth/login                                                        *)
(***************************************************************************)
login(username, password) ==
    LET req == [username |-> username, password |-> password]
        found == get_user_by_name(username)
        user == CHOOSE u \in found : TRUE
        access_token == create_access_token(user.email, now)
        body == [access_token |-> access_token, token_type |-> "bearer"]
    IN
    /\ last' =
         IF found = {} \/ ~verify_password(password, user.password)
         THEN Response("login", req, 401, "Invalid login or password", NoBody)
         ELSE IF ~user.confirmed_email
         THEN Response("login", req, 401, "Email not confirmed", NoBody)
         ELSE IF ResponseModelAccepts(TokenModel, body)
         THEN Response("login", req, 200, "", body)
         ELSE Response("login", req, 500, "Internal Server Error", NoBody)
    /\ UNCHANGED <<procs, cloud, users, contacts, nextContactId, cache, mailq, now>>

\* Variant: confirmed_email without the check of the confirmed flag.
confirmed_email_NoConflictCheck(token) ==
    LET req == [token |-> token]
        decoded == get_email_from_token(token, now)
        found == get_user_by_email(decoded.email)
    IN
    IF ~decoded.ok
    THEN /\ last' = Response("confirmed_email", req, decoded.status,
                             decoded.detail, NoBody)
         /\ UNCHANGED <<procs, cloud, users, contacts, nextContactId, cache, mailq, now>>
    ELSE IF found = {}
    THEN /\ last' = Response("confirmed_email", req, 400,
                             "Verification error", NoBody)
         /\ UNCHANGED <<procs, cloud, users, contacts, nextContactId, cache, mailq, now>>
    ELSE /\ users' = repo_confirmed_email(decoded.email)
         /\ last' = Response("confirmed_email", req, 200, "",
                             [message |-> "Email confirmed"])
         /\ UNCHANGED <<procs, cloud, contacts, nextContactId, cache, mailq, now>>

(***************************************************************************)
(* GET /auth/confirmed_email/{token}                                       *)
(***************************************************************************)
confirmed_email(token) ==
    LET req == [token |-> token]
        decoded == get_email_from_token(token, now)
        found == get_user_by_email(decoded.email)
        user == CHOOSE u \in found : TRUE
    IN
    IF ~decoded.ok
    THEN /\ last' = Response("confirmed_email", req, decoded.status,
                             decoded.detail, NoBody)
         /\ UNCHANGED <<procs, cloud, users, contacts, nextContactId, cache, mailq, now>>
    ELSE IF found = {}
    THEN /\ last' = Response("confirmed_email", req, 400,
                             "Verification error", NoBody)
         /\ UNCHANGED <<procs, cloud, users, contacts, nextContactId, cache, mailq, now>>
    ELSE IF user.confirmed_email
    THEN /\ last' = Response("confirmed_email", req, 409,
                             "Your email is already confirmed", NoBody)
         /\ UNCHANGED <<procs, cloud, users, contacts, nextContactId, cache, mailq, now>>
    ELSE /\ users' = repo_confirmed_email(decoded.email)
         /\ last' = Response("confirmed_email", req, 200, "",
                             [message |-> "Email confirmed"])
         /\ UNCHANGED <<procs, cloud, contacts, nextContactId, cache, mailq, now>>

(***************************************************************************)
(* POST /auth/request_email                                                *)
(***************************************************************************)
\* Variant: request_email without the check of the confirmed flag.
request_email_NoConfirmedCheck(email) ==
    LET req == [email |-> email]
        found == get_user_by_email(email)
        user == CHOOSE u \in found : TRUE
    IN
    /\ found # {} => Len(mailq) < MaxMail
    /\ mailq' = IF found # {} THEN Append(mailq, MailTask(user, FALSE))
                ELSE mailq
    /\ last' = Response("request_email", req, 200, "",
                        [message |-> "Check your email for confirmation"])
    /\ UNCHANGED <<procs, cloud, users, contacts, nextContactId, cache, now>>

request_email(email) ==
    LET req == [email |-> email]
        found == get_user_by_email(email)
        user == CHOOSE u \in found : TRUE
    IN
    IF found # {} /\ user.confirmed_email
    THEN /\ last' = Response("request_email", req, 409,
                             "Your email is already confirmed", NoBody)
         /\ UNCHANGED <<procs, cloud, users, contacts, nextContactId, cache, mailq, now>>
    ELSE /\ found # {} => Len(mailq) < MaxMail
         /\ mailq' = IF found # {} THEN Append(mailq, MailTask(user, FALSE))
                     ELSE mailq
         /\ last' = Response("request_email", req, 200, "",
                             [message |-> "Check your email for confirmation"])
         /\ UNCHANGED <<procs, cloud, users, contacts, nextContactId, cache, now>>

(***************************************************************************)
(* POST /auth/forgot_password                                              *)
(***************************************************************************)
forgot_password(email) ==
    LET req == [email |-> email]
        found == get_user_by_email(email)
        user == CHOOSE u \in found : TRUE
    IN
    IF found = {}
    THEN /\ last' = Response("forgot_password", req, 400,
                             "Verification error", NoBody)
         /\ UNCHANGED <<procs, cloud, users, contacts, nextContactId, cache, mailq, now>>
    ELSE IF ~user.confirmed_email
    THEN /\ last' = Response("forgot_password", req, 401,
                             "Email not confirmed", NoBody)
         /\ UNCHANGED <<procs, cloud, users, contacts, nextContactId, cache, mailq, now>>
    ELSE /\ Len(mailq) < MaxMail
         /\ mailq' = Append(mailq, MailTask(user, TRUE))
         /\ last' = Response("forgot_password", req, 200, "",
                             [message |-> "Check your email for confirmation"])
         /\ UNCHANGED <<procs, cloud, users, contacts, nextContactId, cache, now>>

(***************************************************************************)
(* POST /auth/reset_password/{token}                                       *)
(***************************************************************************)
\* Variant: the new row is also written to the session cache.
post_reset_password_WriteThrough(token, password) ==
    LET req == [token |-> token, password |-> password]
        decoded == get_email_from_token(token, now)
        found == get_user_by_email(decoded.email)
        user == CHOOSE u \in found : TRUE
    IN
    IF ~decoded.ok
    THEN /\ last' = Response("reset_password", req, decoded.status,
                             decoded.detail, NoBody)
         /\ UNCHANGED <<procs, cloud, users, contacts, nextContactId, cache, mailq, now>>
    ELSE IF found = {}
    THEN /\ last' = Response("reset_password", req, 400,
                             "Verification error", NoBody)
         /\ UNCHANGED <<procs, cloud, users, contacts, nextContactId, cache, mailq, now>>
    ELSE IF ~user.confirmed_email
    THEN /\ last' = Response("reset_password", req, 401,
                             "Email not confirmed", NoBody)
         /\ UNCHANGED <<procs, cloud, users, contacts, nextContactId, cache, mailq, now>>
    ELSE /\ users' = repo_reset_password(get_password_hash(password),
                                         decoded.email)
         /\ cache' = cache_set_expire(cache, decoded.email,
                        pickle_dumps([user EXCEPT
                           !.password = get_password_hash(password)]), now)
         /\ last' = Response("reset_password", req, 200, "",
                             [message |-> "Password successfully changed"])
         /\ UNCHANGED <<procs, cloud, contacts, nextContactId, mailq, now>>

post_reset_password(token, password) ==
    LET req == [token |-> token, password |-> password]
        decoded == get_email_from_token(token, now)
        found == get_user_by_email(decoded.email)
        user == CHOOSE u \in found : TRUE
    IN
    IF ~decoded.ok
    THEN /\ last' = Response("reset_password", req, decoded.status,
                             decoded.detail, NoBody)
         /\ UNCHANGED <<procs, cloud, users, contacts, nextContactId, cache, mailq, now>>
    ELSE IF found = {}
    THEN /\ last' = Response("reset_password", req, 400,
                             "Verification error", NoBody)
         /\ UNCHANGED <<procs, cloud, users, contacts, nextContactId, cache, mailq, now>>
    ELSE IF ~user.confirmed_email
    THEN /\ last' = Response("reset_password", req, 401,
                             "Email not confirmed", NoBody)
         /\ UNCHANGED <<procs, cloud, users, contacts, nextContactId, cache, mailq, now>>
    ELSE /\ users' = repo_reset_password(get_password_hash(password),
                                         decoded.email)
         /\ last' = Response("reset_password", req, 200, "",
                             [message |-> "Password successfully changed"])
         /\ UNCHANGED <<procs, cloud, contacts, nextContactId, cache, mailq, now>>

(***************************************************************************)
(* GET /users/me                                                           *)
(***************************************************************************)
get_me(token) ==
    LET req == [token |-> token]
        auth == get_current_user(token, now)
        user == CHOOSE u \in auth.user : TRUE
    IN
    /\ last' = IF auth.user = {} THEN Unauthorized("get_me", req)
               ELSE IF ResponseModelAccepts(UserResponse, user)
               THEN Response("get_me", req, 200, "", UserResponseBody(user))
               ELSE Response("get_me", req, 500, "Internal Server Error", NoBody)
    /\ cache' = auth.cache
    /\ UNCHANGED <<procs, cloud, users, contacts, nextContactId, mailq, now>>

(***************************************************************************)
(* PATCH /users/avatar.  RoleAccess([UserRole.ADMIN]) is a dependency of   *)
(* the route: it receives the user that get_current_user resolved (the     *)
(* resolver runs once per request) and raises 403 before the handler body  *)
(* runs.  The handler uploads the file under the public id                 *)
(* RestApp/<username> (overwrite=True), then stores the returned URL in    *)
(* the user's row.                                                         *)
(***************************************************************************)
Files == {"img1"}

allowed_operation_avatar == {"admin"}

RoleAccess_AllowAll(allowed_roles, current_user) == TRUE

\* RoleAccess.__call__: TRUE when the request may go on to the handler.
RoleAccess(allowed_roles, current_user) == current_user.role \in allowed_roles

public_id(username) == <<"RestApp", username>>

\* cloudinary.uploader.upload(..., overwrite=True): the image host after it.
cloudinary_upload(store, file, username) ==
    {x \in store : x.public_id # public_id(username)}
    \cup {[public_id |-> public_id(username), file |-> file]}

\* CloudinaryImage(public_id).build_url(version=...): the URL names the
\* public id and the version of the uploaded content.
build_url(file, username) == <<"cloudinary", public_id(username), file>>

repo_update_avatar(email, url) ==
    {IF u.email = email THEN [u EXCEPT !.avatar = url] ELSE u : u \in users}

\* `uploaded` is FALSE when the call to the image host raises.
update_avatar(token, file, uploaded) ==
    LET req == [token |-> token, file |-> file]
        auth == get_current_user(token, now)
        user == CHOOSE u \in auth.user : TRUE
        url == build_url(file, user.username)
        saved == repo_update_avatar(user.email, url)
    IN
    /\ cache' = auth.cache
    /\ IF auth.user = {}
       THEN /\ last' = Unauthorized("update_avatar", req)
            /\ UNCHANGED <<users, cloud>>
       ELSE IF ~RoleAccess(allowed_operation_avatar, user)
       THEN /\ last' = Response("update_avatar", req, 403,
                           "Access denied: insufficient privileges", NoBody)
            /\ UNCHANGED <<users, cloud>>
       ELSE IF ~uploaded
       THEN /\ last' = Response("update_avatar", req, 500,
                           "Internal Server Error", NoBody)
            /\ UNCHANGED <<users, cloud>>
       ELSE /\ cloud' = cloudinary_upload(cloud, file, user.username)
            /\ IF get_user_by_email(user.email) = {}
               THEN /\ last' = Response("update_avatar", req, 500,
                                   "Internal Server Error", NoBody)
                    /\ UNCHANGED users
               ELSE /\ users' = saved
                    /\ last' = Response("update_avatar", req, 200, "",
                          UserResponseBody(
                            CHOOSE u \in saved : u.email = user.email))
    /\ UNCHANGED <<procs, contacts, nextContactId, mailq, now>>

(***************************************************************************)
(* Background task send_email: runs after the response of the request that *)
(* scheduled it; tasks of different requests run in any order.  A          *)
(* ConnectionErrors of the mail provider is printed and swallowed.         *)
(***************************************************************************)
RemoveAt(q, i) == [j \in 1..(Len(q) - 1) |-> IF j < i THEN q[j] ELSE q[j + 1]]

\* Variant: a task whose delivery failed stays scheduled.
send_email_Retry(i, delivered) ==
    /\ i \in 1..Len(mailq)
    /\ mailq' = IF delivered THEN RemoveAt(mailq, i) ELSE mailq
    /\ last' = Response("send_email", mailq[i], 0,
                        IF delivered THEN "sent" ELSE "ConnectionErrors",
                        [token |-> create_email_token(mailq[i].email, now)])
    /\ UNCHANGED <<procs, cloud, users, contacts, nextContactId, cache, now>>

send_email(i, delivered) ==
    /\ i \in 1..Len(mailq)
    /\ mailq' = RemoveAt(mailq, i)
    /\ last' = Response("send_email", mailq[i], 0,
                        IF delivered THEN "sent" ELSE "ConnectionErrors",
                        [token |-> create_email_token(mailq[i].email, now)])
    /\ UNCHANGED <<procs, cloud, users, contacts, nextContactId, cache, now>>

(***************************************************************************)
(* The wall clock advances.                                                *)
(***************************************************************************)
Tick ==
    /\ now < MaxTicks * TickMinutes
    /\ now' = now + TickMinutes
    /\ cache' = cache_purge(cache, now + TickMinutes)
    /\ last' = Response("tick", <<>>, 0, "", NoBody)
    /\ UNCHANGED <<procs, cloud, users, contacts, nextContactId, mailq>>

Next ==
    \/ \E username \in Usernames, email \in Emails, password \in Passwords :
          signup(username, email, password)
    \/ \E username \in Usernames, password \in Passwords :
          login(username, password)
    \/ \E token \in PresentableTokens(now) : confirmed_email(token)
    \/ \E email \in Emails : request_email(email)
    \/ \E email \in Emails : forgot_password(email)
    \/ \E token \in PresentableTokens(now), password \in Passwords :
          post_reset_password(token, password)
    \/ \E i \in 1..MaxMail, delivered \in BOOLEAN : send_email(i, delivered)
    \/ Tick

Spec == Init /\ [][Next]_vars

(***************************************************************************)
(* Session flows: two registered users (alice still unconfirmed, bob       *)
(* confirmed and granted the admin role in the store) use the endpoints    *)
(* that consume tokens.                                                    *)
(***************************************************************************)
SeedUser(id, username, email, confirmed, role) ==
    [id |-> id, username |-> username, email |-> email,
     password |-> get_password_hash("pw1"), confirmed_email |-> confirmed,
     avatar |-> Gravatar(email), role |-> role]

InitSession ==
    /\ users = {SeedUser(1, "alice", "a@x.io", FALSE, "user"),
                SeedUser(2, "bob", "b@x.io", TRUE, "admin")}
    /\ contacts = {}
    /\ nextContactId = 1
    /\ cache = [e \in CacheKeys |-> {}]
    /\ cloud = {}
    /\ mailq = <<>>
    /\ now = 0
    /\ last = Response("init", <<>>, 0, "", NoBody)
    /\ procs = <<>>

\* Tokens presented to the endpoints of the users router: also a signed
\* access token whose subject has no account.
SessionTokens(t) ==
    PresentableTokens(t) \cup {create_access_token(GhostEmail, t)}

NextSession ==
    \/ \E token \in SessionTokens(now) : get_me(token)
    \/ \E token \in SessionTokens(now), file \in Files, uploaded \in BOOLEAN :
          update_avatar(token, file, uploaded)
    \/ \E username \in Usernames, password \in Passwords :
          login(username, password)
    \/ \E token \in PresentableTokens(now) : confirmed_email(token)
    \/ \E token \in PresentableTokens(now), password \in Passwords :
          post_reset_password(token, password)
    \/ Tick

SpecSession == InitSession /\ [][NextSession]_vars

(***************************************************************************)
(* Contacts.  A contact row keeps the fields of ContactBase that the       *)
(* queries read (phone and info are carried along unread), its id and its  *)
(* owner.  birthday is a datetime, in minutes since the epoch.             *)
(***************************************************************************)
\* The request bodies (ContactBase) that are tried.
ContactBase ==
    {[first_name |-> "Ann", last_name |-> "Doe", email |-> "c1@y.io",
      birthday |-> 0],
     [first_name |-> "Bea", last_name |-> "Doe", email |-> "c1@y.io",
      birthday |-> BirthdayWindowDays * MinutesPerDay + 720],
     [first_name |-> "Ann", last_name |-> "Roe", email |-> "c2@y.io",
      birthday |-> BirthdayWindowDays * MinutesPerDay + 720]}

ContactIds == 1..MaxContactId

NoFilter == ""

\* The (name, surname, email) filters of the list requests that are tried.
ListFilters ==
    {[name |-> NoFilter, surname |-> NoFilter, email |-> NoFilter],
     [name |-> "Bea", surname |-> "Doe", email |-> "c1@y.io"]}

Skips == 0..1
Limits == 1..2

\* The bearer tokens of the contact requests: an access token of each user
\* and an email-scoped token, all signed at time t.
ClientTokens(t) ==
    {create_access_token(e, t) : e \in Emails}
    \cup {create_email_token("a@x.io", t)}

\* datetime.now().date(), as the database compares it with a datetime column:
\* midnight of the current day.
today(t) == (t \div MinutesPerDay) * MinutesPerDay

\* All orders in which the store may return a set of rows (no ORDER BY).
RowOrders(rows) ==
    {q \in [1..Cardinality(rows) -> rows] :
        \A i, j \in 1..Cardinality(rows) : i # j => q[i] # q[j]}

\* .offset(skip).limit(limit) on a result list.
OffsetLimit(q, skip, limit) ==
    SubSeq(q, skip + 1, IF skip + limit < Len(q) THEN skip + limit ELSE Len(q))

(***************************************************************************)
(* ContactRepository.                                                      *)
(***************************************************************************)
Contact(id, body, user) ==
    [id |-> id, first_name |-> body.first_name, last_name |-> body.last_name,
     email |-> body.email, birthday |-> body.birthday, user_id |-> user.id]

\* Variant: the owner filter compares the contact id with the user id.
get_contact_by_email_WrongColumn(contact_email, user) ==
    {c \in contacts : c.id = user.id /\ c.email = contact_email}

get_contact_by_email(contact_email, user) ==
    {c \in contacts : c.user_id = user.id /\ c.email = contact_email}

\* Variant: the lookup by id has no owner filter.
get_contact_by_id_AnyOwner(contact_id, user) ==
    {c \in contacts : c.id = contact_id}

get_contact_by_id(contact_id, user) ==
    {c \in contacts : c.user_id = user.id /\ c.id = contact_id}

\* Variant: the column has no unique constraint.
UniqueEmail_Off(rows) == TRUE

\* Contact.email is declared unique=True: the store refuses a commit that
\* would leave two rows with the same email (IntegrityError).
UniqueEmail(rows) ==
    \A c, d \in rows : c.email = d.email => c = d

\* ContactRepository.get_contacts: the statement with offset and limit is
\* built but not assigned, so the executed statement has the filters only.
repo_get_contacts(skip, limit, name, surname, email, user) ==
    {c \in contacts :
        /\ c.user_id = user.id
        /\ name # NoFilter => c.first_name = name
        /\ surname # NoFilter => c.last_name = surname
        /\ email # NoFilter => c.email = email}

\* Variant: the WHERE clause has no lower bound on the birthday.
repo_birthdays_NoLowerBound(user, t) ==
    {c \in contacts :
        /\ c.user_id = user.id
        /\ c.birthday <= today(t) + BirthdayWindowDays * MinutesPerDay}

\* ContactRepository.birthdays: the rows selected by the WHERE clause.
repo_birthdays(user, t) ==
    {c \in contacts :
        /\ c.user_id = user.id
        /\ c.birthday >= today(t)
        /\ c.birthday <= today(t) + BirthdayWindowDays * MinutesPerDay}

ServerError(op, req) == Response(op, req, 500, "Internal Server Error", NoBody)

NotFound(op, req) == Response(op, req, 404, "Contact not found", NoBody)

(***************************************************************************)
(* POST /contacts/                                                         *)
(***************************************************************************)
\* Variant: the row is added before the check for a duplicate email.
create_contact_AddBeforeCheck(token, body) ==
    LET req == [token |-> token, body |-> body]
        auth == get_current_user(token, now)
        user == CHOOSE u \in auth.user : TRUE
        contact == Contact(nextContactId, body, user)
    IN
    IF auth.user = {}
    THEN /\ last' = Unauthorized("create_contact", req)
         /\ UNCHANGED <<procs, cloud, users, contacts, nextContactId, cache, mailq, now>>
    ELSE IF get_contact_by_email(body.email, user) # {}
    THEN /\ nextContactId <= MaxContactId
         /\ nextContactId' = nextContactId + 1
         /\ contacts' = contacts \cup {contact}
         /\ last' = Response("create_contact", req, 409, "Email in use", NoBody)
         /\ cache' = auth.cache
         /\ UNCHANGED <<procs, cloud, users, mailq, now>>
    ELSE /\ nextContactId <= MaxContactId
         /\ nextContactId' = nextContactId + 1
         /\ cache' = auth.cache
         /\ IF UniqueEmail(contacts \cup {contact})
            THEN /\ contacts' = contacts \cup {contact}
                 /\ last' = Response("create_contact", req, 201, "", contact)
            ELSE /\ contacts' = contacts
                 /\ last' = ServerError("create_contact", req)
         /\ UNCHANGED <<procs, cloud, users, mailq, now>>

create_contact(token, body) ==
    LET req == [token |-> token, body |-> body]
        auth == get_current_user(token, now)
        user == CHOOSE u \in auth.user : TRUE
        contact == Contact(nextContactId, body, user)
    IN
    IF auth.user = {}
    THEN /\ last' = Unauthorized("create_contact", req)
         /\ UNCHANGED <<procs, cloud, users, contacts, nextContactId, cache, mailq, now>>
    ELSE IF get_contact_by_email(body.email, user) # {}
    THEN /\ last' = Response("create_contact", req, 409, "Email in use", NoBody)
         /\ cache' = auth.cache
         /\ UNCHANGED <<procs, cloud, users, contacts, nextContactId, mailq, now>>
    ELSE /\ nextContactId <= MaxContactId
         /\ nextContactId' = nextContactId + 1
         /\ cache' = auth.cache
         /\ IF UniqueEmail(contacts \cup {contact})
            THEN /\ contacts' = contacts \cup {contact}
                 /\ last' = Response("create_contact", req, 201, "", contact)
            ELSE /\ contacts' = contacts
                 /\ last' = ServerError("create_contact", req)
         /\ UNCHANGED <<procs, cloud, users, mailq, now>>

(***************************************************************************)
(* GET /contacts/                                                          *)
(***************************************************************************)
get_contacts(token, filter, skip, limit) ==
    LET req == [token |-> token, filter |-> filter, skip |-> skip,
                limit |-> limit]
        auth == get_current_user(token, now)
        user == CHOOSE u \in auth.user : TRUE
    IN
    IF auth.user = {}
    THEN /\ last' = Unauthorized("get_contacts", req)
         /\ UNCHANGED <<procs, cloud, users, contacts, nextContactId, cache, mailq, now>>
    ELSE /\ \E q \in RowOrders(repo_get_contacts(skip, limit, filter.name,
                                    filter.surname, filter.email, user)) :
               last' = Response("get_contacts", req, 200, "", q)
         /\ cache' = auth.cache
         /\ UNCHANGED <<procs, cloud, users, contacts, nextContactId, mailq, now>>

(***************************************************************************)
(* GET /contacts/{contact_id}                                              *)
(***************************************************************************)
api_get_contact_by_id(token, contact_id) ==
    LET req == [token |-> token, contact_id |-> contact_id]
        auth == get_current_user(token, now)
        user == CHOOSE u \in auth.user : TRUE
        found == get_contact_by_id(contact_id, user)
    IN
    IF auth.user = {}
    THEN /\ last' = Unauthorized("get_contact_by_id", req)
         /\ UNCHANGED <<procs, cloud, users, contacts, nextContactId, cache, mailq, now>>
    ELSE /\ last' = IF found = {} THEN NotFound("get_contact_by_id", req)
                    ELSE Response("get_contact_by_id", req, 200, "",
                                  CHOOSE c \in found : TRUE)
         /\ cache' = auth.cache
         /\ UNCHANGED <<procs, cloud, users, contacts, nextContactId, mailq, now>>

(***************************************************************************)
(* PUT /contacts/{contact_id}                                              *)
(***************************************************************************)
update_contact(token, contact_id, body) ==
    LET req == [token |-> token, contact_id |-> contact_id, body |-> body]
        auth == get_current_user(token, now)
        user == CHOOSE u \in auth.user : TRUE
        found == get_contact_by_id(contact_id, user)
        contact == Contact(contact_id, body, user)
        updated == (contacts \ found) \cup {contact}
    IN
    IF auth.user = {}
    THEN /\ last' = Unauthorized("update_contact", req)
         /\ UNCHANGED <<procs, cloud, users, contacts, nextContactId, cache, mailq, now>>
    ELSE /\ cache' = auth.cache
         /\ IF found = {}
            THEN /\ contacts' = contacts
                 /\ last' = NotFound("update_contact", req)
            ELSE IF UniqueEmail(updated)
            THEN /\ contacts' = updated
                 /\ last' = Response("update_contact", req, 200, "", contact)
            ELSE /\ contacts' = contacts
                 /\ last' = ServerError("update_contact", req)
         /\ UNCHANGED <<procs, cloud, users, nextContactId, mailq, now>>

(***************************************************************************)
(* DELETE /contacts/{contact_id}                                           *)
(***************************************************************************)
\* Variant: the row is not removed before 204 is answered.
delete_contact_KeepsRow(token, contact_id) ==
    LET req == [token |-> token, contact_id |-> contact_id]
        auth == get_current_user(token, now)
        user == CHOOSE u \in auth.user : TRUE
        found == get_contact_by_id(contact_id, user)
    IN
    IF auth.user = {}
    THEN /\ last' = Unauthorized("delete_contact", req)
         /\ UNCHANGED <<procs, cloud, users, contacts, nextContactId, cache, mailq, now>>
    ELSE /\ cache' = auth.cache
         /\ last' = IF found = {} THEN NotFound("delete_contact", req)
                    ELSE Response("delete_contact", req, 204, "", NoBody)
         /\ UNCHANGED <<procs, cloud, users, contacts, nextContactId, mailq, now>>

delete_contact(token, contact_id) ==
    LET req == [token |-> token, contact_id |-> contact_id]
        auth == get_current_user(token, now)
        user == CHOOSE u \in auth.user : TRUE
        found == get_contact_by_id(contact_id, user)
    IN
    IF auth.user = {}
    THEN /\ last' = Unauthorized("delete_contact", req)
         /\ UNCHANGED <<procs, cloud, users, contacts, nextContactId, cache, mailq, now>>
    ELSE /\ cache' = auth.cache
         /\ contacts' = contacts \ found
         /\ last' = IF found = {} THEN NotFound("delete_contact", req)
                    ELSE Response("delete_contact", req, 204, "", NoBody)
         /\ UNCHANGED <<procs, cloud, users, nextContactId, mailq, now>>

(***************************************************************************)
(* Handler get_upcomming_birthdays (ContactService.birthdays), called with *)
(* a bearer token, skip and limit.                                         *)
(***************************************************************************)
get_upcomming_birthdays(token, skip, limit) ==
    LET req == [token |-> token, skip |-> skip, limit |-> limit]
        auth == get_current_user(token, now)
        user == CHOOSE u \in auth.user : TRUE
    IN
    IF auth.user = {}
    THEN /\ last' = Unauthorized("birthdays", req)
         /\ UNCHANGED <<procs, cloud, users, contacts, nextContactId, cache, mailq, now>>
    ELSE /\ \E q \in RowOrders(repo_birthdays(user, now)) :
               last' = Response("birthdays", req, 200, "",
                                OffsetLimit(q, skip, limit))
         /\ cache' = auth.cache
         /\ UNCHANGED <<procs, cloud, users, contacts, nextContactId, mailq, now>>

(***************************************************************************)
(* A day passes.                                                           *)
(***************************************************************************)
DayTick ==
    /\ now < MaxDays * MinutesPerDay
    /\ now' = now + MinutesPerDay
    /\ cache' = cache_purge(cache, now + MinutesPerDay)
    /\ last' = Response("tick", <<>>, 0, "", NoBody)
    /\ UNCHANGED <<procs, cloud, users, contacts, nextContactId, mailq>>

(***************************************************************************)
(* Contact flows: alice and bob are registered and confirmed.              *)
(***************************************************************************)
InitContacts ==
    /\ users = {SeedUser(1, "alice", "a@x.io", TRUE, "user"),
                SeedUser(2, "bob", "b@x.io", TRUE, "user")}
    /\ contacts = {}
    /\ nextContactId = 1
    /\ cache = [e \in CacheKeys |-> {}]
    /\ cloud = {}
    /\ mailq = <<>>
    /\ now = 0
    /\ last = Response("init", <<>>, 0, "", NoBody)
    /\ procs = <<>>

NextContacts ==
    \/ \E token \in ClientTokens(now), body \in ContactBase :
          create_contact(token, body)
    \/ \E token \in ClientTokens(now), filter \in ListFilters,
          skip \in Skips, limit \in Limits :
          get_contacts(token, filter, skip, limit)
    \/ \E token \in ClientTokens(now), contact_id \in ContactIds :
          api_get_contact_by_id(token, contact_id)
    \/ \E token \in ClientTokens(now), contact_id \in ContactIds,
          body \in ContactBase :
          update_contact(token, contact_id, body)
    \/ \E token \in ClientTokens(now), contact_id \in ContactIds :
          delete_contact(token, contact_id)
    \/ \E token \in ClientTokens(now), skip \in Skips, limit \in Limits :
          get_upcomming_birthdays(token, skip, limit)
    \/ DayTick

SpecContacts == InitContacts /\ [][NextContacts]_vars

(***************************************************************************)
(* Routing of GET /contacts/<segment>.  The router tries its routes in the *)
(* order of registration and hands the request to the first one whose      *)
(* method and path pattern match; a path parameter matches any segment.    *)
(* The parameters of the chosen endpoint are then resolved: dependencies   *)
(* first (the current-user resolver raises 401), then the path parameter   *)
(* is converted and validated (422 when it is not an integer >= 1).        *)
(***************************************************************************)
Word(text) == [kind |-> "word", text |-> text, n |-> 0]

Digits(n) == [kind |-> "digits", text |-> "", n |-> n]

PathSegments == {Word("birthdays")} \cup {Digits(n) : n \in 0..MaxContactId}

\* The routes of the contacts router that have one path segment, in the
\* order of their decorators.
ContactRoutes ==
    <<[method |-> "GET", path |-> "{contact_id}", endpoint |-> "get_contact_by_id"],
      [method |-> "PUT", path |-> "{contact_id}", endpoint |-> "update_contact"],
      [method |-> "DELETE", path |-> "{contact_id}", endpoint |-> "delete_contact"],
      [method |-> "GET", path |-> "birthdays", endpoint |-> "birthdays"]>>

\* Route.matches: a {param} pattern accepts every non-empty segment, a
\* literal pattern accepts the segment that spells it.
RouteMatches(route, method, segment) ==
    /\ route.method = method
    /\ \/ route.path = "{contact_id}"
       \/ segment.kind = "word" /\ segment.text = route.path

\* Router dispatch: the first matching route.
Dispatch(method, segment) ==
    LET hits == {i \in DOMAIN ContactRoutes :
                    RouteMatches(ContactRoutes[i], method, segment)}
    IN ContactRoutes[CHOOSE i \in hits : \A j \in hits : i <= j]

\* contact_id: int = Path(ge=1): the converted value, or nothing.
PathInt(segment) ==
    IF segment.kind = "digits" /\ segment.n >= 1 THEN {segment.n} ELSE {}

Unprocessable(op, req) ==
    Response(op, req, 422, "Unprocessable Entity", NoBody)

route_GET(token, segment, skip, limit) ==
    LET req == [token |-> token, path |-> segment, skip |-> skip,
                limit |-> limit]
        route == Dispatch("GET", segment)
        auth == get_current_user(token, now)
        user == CHOOSE u \in auth.user : TRUE
        ids == PathInt(segment)
        found == get_contact_by_id(CHOOSE n \in ids : TRUE, user)
    IN
    /\ cache' = auth.cache
    /\ IF auth.user = {}
       THEN last' = Unauthorized(route.endpoint, req)
       ELSE IF route.endpoint = "get_contact_by_id"
       THEN last' = IF ids = {} THEN Unprocessable("get_contact_by_id", req)
                    ELSE IF found = {} THEN NotFound("get_contact_by_id", req)
                    ELSE Response("get_contact_by_id", req, 200, "",
                                  CHOOSE c \in found : TRUE)
       ELSE \E q \in RowOrders(repo_birthdays(user, now)) :
               last' = Response("birthdays", req, 200, "",
                                OffsetLimit(q, skip, limit))
    /\ UNCHANGED <<procs, cloud, users, contacts, nextContactId, mailq, now>>

NextRouting ==
    \/ \E token \in ClientTokens(now), body \in ContactBase :
          create_contact(token, body)
    \/ \E token \in ClientTokens(now), segment \in PathSegments,
          skip \in Skips, limit \in Limits :
          route_GET(token, segment, skip, limit)
    \/ DayTick

SpecRouting == InitContacts /\ [][NextRouting]_vars

(***************************************************************************)
(* Mail flows: bob is registered and confirmed, alice is not registered    *)
(* yet; the endpoints that schedule a mail and the background task that    *)
(* sends it.                                                               *)
(***************************************************************************)
InitMail ==
    /\ users = {SeedUser(1, "bob", "b@x.io", TRUE, "user")}
    /\ contacts = {}
    /\ nextContactId = 1
    /\ cache = [e \in CacheKeys |-> {}]
    /\ cloud = {}
    /\ mailq = <<>>
    /\ now = 0
    /\ last = Response("init", <<>>, 0, "", NoBody)
    /\ procs = <<>>

NextMail ==
    \/ \E username \in Usernames, email \in Emails, password \in Passwords :
          signup(username, email, password)
    \/ \E email \in Emails \cup {GhostEmail} : request_email(email)
    \/ \E email \in Emails \cup {GhostEmail} : forgot_password(email)
    \/ \E i \in 1..MaxMail, delivered \in BOOLEAN : send_email(i, delivered)

SpecMail == InitMail /\ [][NextMail]_vars

(***************************************************************************)
(* Store session of a request (get_db / DatabaseSessionManager.session).   *)
(* The dependency opens a session and yields it; the handler ends with an  *)
(* outcome; the outcome is raised into the context manager at its yield:   *)
(* `except SQLAlchemyError` rolls the session back, `finally` closes it.   *)
(* procs[r].session is the list of calls made on the session of request r. *)
(***************************************************************************)
MaxRequests == 2

Requests == 1..MaxRequests

Outcomes == {"success", "http_error", "store_error", "other_error"}

InitDb ==
    /\ users = {}
    /\ contacts = {}
    /\ nextContactId = 1
    /\ cache = [e \in CacheKeys |-> {}]
    /\ cloud = {}
    /\ mailq = <<>>
    /\ now = 0
    /\ last = Response("init", <<>>, 0, "", NoBody)
    /\ procs = [r \in Requests |->
                  [pc |-> "idle", outcome |-> "none", session |-> <<>>]]

DbFrame == UNCHANGED <<users, contacts, nextContactId, cache, cloud, mailq,
                       now, last>>

\* session = self._session_maker(); yield session
get_db(r) ==
    /\ procs[r].pc = "idle"
    /\ procs' = [procs EXCEPT ![r].pc = "handler", ![r].session = <<"open">>]
    /\ DbFrame

\* The handler returns, raises an HTTPException, a SQLAlchemyError or
\* another exception.
handler_ends(r, outcome) ==
    /\ procs[r].pc = "handler"
    /\ procs' = [procs EXCEPT ![r].pc = "except", ![r].outcome = outcome]
    /\ DbFrame

\* Variant: no except clause, the session is only closed.
session_except_NoRollback(r) ==
    /\ procs[r].pc = "except"
    /\ procs' = [procs EXCEPT ![r].pc = "finally"]
    /\ DbFrame

\* except SQLAlchemyError: await session.rollback(); raise
session_except(r) ==
    /\ procs[r].pc = "except"
    /\ procs' = [procs EXCEPT
                   ![r].pc = "finally",
                   ![r].session =
                      IF procs[r].outcome = "store_error"
                      THEN Append(procs[r].session, "rollback")
                      ELSE procs[r].session]
    /\ DbFrame

\* finally: await session.close()
session_finally(r) ==
    /\ procs[r].pc = "finally"
    /\ procs' = [procs EXCEPT ![r].pc = "done",
                              ![r].session = Append(procs[r].session, "close")]
    /\ DbFrame

NextDb ==
    \/ \E r \in Requests : get_db(r)
    \/ \E r \in Requests, outcome \in Outcomes : handler_ends(r, outcome)
    \/ \E r \in Requests : session_except(r)
    \/ \E r \in Requests : session_finally(r)

SpecDb == InitDb /\ [][NextDb]_vars

\* Once the handler has ended, the exit code of the context manager runs.
SpecDbFair ==
    /\ SpecDb
    /\ \A r \in Requests : WF_vars(session_except(r))
    /\ \A r \in Requests : WF_vars(session_finally(r))

(***************************************************************************)
(* Concurrent current-user resolutions for one email, followed call by     *)
(* call: r.get, get_user_by_email, r.set and r.expire are separate steps   *)
(* of each request and the requests interleave freely, while time passes.  *)
(***************************************************************************)
MaxResolvers == 3

Resolvers == 1..MaxResolvers

RaceEmail == "b@x.io"

InitCacheRace ==
    /\ users = {SeedUser(1, "alice", "a@x.io", FALSE, "user"),
                SeedUser(2, "bob", "b@x.io", TRUE, "admin")}
    /\ contacts = {}
    /\ nextContactId = 1
    /\ cache = [e \in CacheKeys |-> {}]
    /\ cloud = {}
    /\ mailq = <<>>
    /\ now = 0
    /\ last = Response("init", <<>>, 0, "", NoBody)
    /\ procs = [p \in Resolvers |->
                  [pc |-> "get", user |-> {}, status |-> 0, missed |-> FALSE]]

RaceFrame == UNCHANGED <<users, contacts, nextContactId, cloud, mailq, now,
                         last>>

\* user = self.r.get(f"user:{email}") ... else: user = pickle.loads(user)
resolver_get(p) ==
    /\ procs[p].pc = "get"
    /\ procs' = IF cache[RaceEmail] = {}
                THEN [procs EXCEPT ![p].pc = "query", ![p].missed = TRUE]
                ELSE [procs EXCEPT
                        ![p].pc = "done", ![p].status = 200,
                        ![p].user = {pickle_loads(x.value) :
                                       x \in cache[RaceEmail]}]
    /\ UNCHANGED cache
    /\ RaceFrame

\* user = await user_service.get_user_by_email(email)
resolver_query(p) ==
    /\ procs[p].pc = "query"
    /\ procs' = IF get_user_by_email(RaceEmail) = {}
                THEN [procs EXCEPT ![p].pc = "done", ![p].status = 401]
                ELSE [procs EXCEPT ![p].pc = "set",
                                   ![p].user = get_user_by_email(RaceEmail)]
    /\ UNCHANGED cache
    /\ RaceFrame

\* self.r.set(f"user:{email}", pickle.dumps(user))
resolver_set(p) ==
    /\ procs[p].pc = "set"
    /\ cache' = cache_set(cache, RaceEmail,
                          pickle_dumps(CHOOSE u \in procs[p].user : TRUE))
    /\ procs' = [procs EXCEPT ![p].pc = "expire"]
    /\ RaceFrame

\* Variant: the time-to-live is not set.
resolver_expire_Skipped(p) ==
    /\ procs[p].pc = "expire"
    /\ procs' = [procs EXCEPT ![p].pc = "done", ![p].status = 200]
    /\ UNCHANGED cache
    /\ RaceFrame

\* self.r.expire(f"user:{email}", 900)
resolver_expire(p) ==
    /\ procs[p].pc = "expire"
    /\ cache' = cache_expire(cache, RaceEmail, now)
    /\ procs' = [procs EXCEPT ![p].pc = "done", ![p].status = 200]
    /\ RaceFrame

\* Time passes between the calls.
RaceTick ==
    /\ Tick
    /\ UNCHANGED procs

NextCacheRace ==
    \/ \E p \in Resolvers : resolver_get(p)
    \/ \E p \in Resolvers : resolver_query(p)
    \/ \E p \in Resolvers : resolver_set(p)
    \/ \E p \in Resolvers : resolver_expire(p)
    \/ RaceTick

SpecCacheRace == InitCacheRace /\ [][NextCacheRace]_vars

(***************************************************************************)
(* Concurrent confirmation requests, followed await by await.  Each        *)
(* request has its own store session: the handler reads the user, tests    *)
(* the flag of the row it has read, then UserRepository.confirmed_email    *)
(* reads the row again, sets the flag and commits.  alice and bob are both *)
(* registered and unconfirmed; every request presents a valid email token. *)
(***************************************************************************)
MaxConfirmers == 3

Confirmers == 1..MaxConfirmers

InitConfirmRace ==
    /\ users = {SeedUser(1, "alice", "a@x.io", FALSE, "user"),
                SeedUser(2, "bob", "b@x.io", FALSE, "user")}
    /\ contacts = {}
    /\ nextContactId = 1
    /\ cache = [e \in CacheKeys |-> {}]
    /\ cloud = {}
    /\ mailq = <<>>
    /\ now = 0
    /\ last = Response("init", <<>>, 0, "", NoBody)
    /\ procs = [p \in Confirmers |->
                  [pc |-> "idle", email |-> "", user |-> {}, status |-> 0,
                   detail |-> ""]]

ConfirmFrame == UNCHANGED <<contacts, nextContactId, cache, cloud, mailq, now,
                            last>>

\* email = auth_service.get_email_from_token(token)
confirm_decode(p, token) ==
    /\ procs[p].pc = "idle"
    /\ LET decoded == get_email_from_token(token, now)
       IN procs' = IF decoded.ok
                   THEN [procs EXCEPT ![p].pc = "read",
                                      ![p].email = decoded.email]
                   ELSE [procs EXCEPT ![p].pc = "done",
                                      ![p].status = decoded.status,
                                      ![p].detail = decoded.detail]
    /\ UNCHANGED users
    /\ ConfirmFrame

\* user = await user_service.get_user_by_email(email)
confirm_read(p) ==
    /\ procs[p].pc = "read"
    /\ procs' = [procs EXCEPT ![p].pc = "check",
                              ![p].user = get_user_by_email(procs[p].email)]
    /\ UNCHANGED users
    /\ ConfirmFrame

\* if user is None: 400 ... if user.confirmed_email: 409
confirm_check(p) ==
    /\ procs[p].pc = "check"
    /\ procs' =
         IF procs[p].user = {}
         THEN [procs EXCEPT ![p].pc = "done", ![p].status = 400,
                            ![p].detail = "Verification error"]
         ELSE IF \E u \in procs[p].user : u.confirmed_email
         THEN [procs EXCEPT ![p].pc = "done", ![p].status = 409,
                            ![p].detail = "Your email is already confirmed"]
         ELSE [procs EXCEPT ![p].pc = "commit"]
    /\ UNCHANGED users
    /\ ConfirmFrame

\* await user_service.confirmed_email(email); return {"message": ...}
confirm_commit(p) ==
    /\ procs[p].pc = "commit"
    /\ users' = repo_confirmed_email(procs[p].email)
    /\ procs' = [procs EXCEPT ![p].pc = "done", ![p].status = 200,
                              ![p].detail = "Email confirmed"]
    /\ ConfirmFrame

NextConfirmRace ==
    \/ \E p \in Confirmers, e \in Emails :
          confirm_decode(p, create_email_token(e, now))
    \/ \E p \in Confirmers : confirm_read(p)
    \/ \E p \in Confirmers : confirm_check(p)
    \/ \E p \in Confirmers : confirm_commit(p)

SpecConfirmRace == InitConfirmRace /\ [][NextConfirmRace]_vars

(***************************************************************************)
(* Concurrent signup requests, followed await by await: the lookup by      *)
(* email, the lookup by username and the insert (UserRepository            *)
(* .create_user: add, commit) are separate steps of each request.  The     *)
(* store starts empty.  User.username and User.email are declared          *)
(* unique=True: a commit that would duplicate either raises IntegrityError,*)
(* the session is rolled back and the request is answered 500.             *)
(***************************************************************************)
MaxSigners == 2

Signers == 1..MaxSigners

InitSignupRace ==
    /\ users = {}
    /\ contacts = {}
    /\ nextContactId = 1
    /\ cache = [e \in CacheKeys |-> {}]
    /\ cloud = {}
    /\ mailq = <<>>
    /\ now = 0
    /\ last = Response("init", <<>>, 0, "", NoBody)
    /\ procs = [p \in Signers |->
                  [pc |-> "idle", username |-> "", email |-> "", status |-> 0,
                   detail |-> ""]]

SignupFrame == UNCHANGED <<contacts, nextContactId, cache, cloud, now, last>>

\* Variant: the users table has no unique constraints.
UniqueUser_Off(rows) == TRUE

\* The unique constraints of the users table.
UniqueUser(rows) ==
    \A u, v \in rows :
        (u.email = v.email \/ u.username = v.username) => u = v

\* The request arrives with its body.
signup_begin(p, username, email) ==
    /\ procs[p].pc = "idle"
    /\ procs' = [procs EXCEPT ![p].pc = "check_email",
                              ![p].username = username, ![p].email = email]
    /\ UNCHANGED <<users, mailq>>
    /\ SignupFrame

\* email_user = await user_service.get_user_by_email(user.email)
signup_check_email(p) ==
    /\ procs[p].pc = "check_email"
    /\ procs' = IF get_user_by_email(procs[p].email) # {}
                THEN [procs EXCEPT
                        ![p].pc = "done", ![p].status = 409,
                        ![p].detail = "User with this email already exist"]
                ELSE [procs EXCEPT ![p].pc = "check_name"]
    /\ UNCHANGED <<users, mailq>>
    /\ SignupFrame

\* name_user = await user_service.get_user_by_name(user.username)
signup_check_name(p) ==
    /\ procs[p].pc = "check_name"
    /\ procs' = IF get_user_by_name(procs[p].username) # {}
                THEN [procs EXCEPT
                        ![p].pc = "done", ![p].status = 409,
                        ![p].detail = "User with this name already exist"]
                ELSE [procs EXCEPT ![p].pc = "insert"]
    /\ UNCHANGED <<users, mailq>>
    /\ SignupFrame

\* new_user = await user_service.create_user(user); add_task(send_email...)
signup_insert(p) ==
    /\ procs[p].pc = "insert"
    /\ LET new_user == create_user(procs[p].username, procs[p].email,
                                   get_password_hash("pw1"))
       IN IF UniqueUser(users \cup {new_user})
          THEN /\ users' = users \cup {new_user}
               /\ mailq' = Append(mailq, MailTask(new_user, FALSE))
               /\ procs' = [procs EXCEPT ![p].pc = "done", ![p].status = 201]
          ELSE /\ UNCHANGED <<users, mailq>>
               /\ procs' = [procs EXCEPT
                              ![p].pc = "done", ![p].status = 500,
                              ![p].detail = "Internal Server Error"]
    /\ SignupFrame

NextSignupRace ==
    \/ \E p \in Signers, username \in Usernames, email \in Emails :
          signup_begin(p, username, email)
    \/ \E p \in Signers : signup_check_email(p)
    \/ \E p \in Signers : signup_check_name(p)
    \/ \E p \in Signers : signup_insert(p)

SpecSignupRace == InitSignupRace /\ [][NextSignupRace]_vars

(***************************************************************************)
(* Access tokens in circulation.  create_access_token is called by login   *)
(* only, so the access tokens that clients can present are the ones login  *)
(* has made; here procs is the set of those tokens.  alice is registered   *)
(* and unconfirmed, bob is confirmed.                                      *)
(***************************************************************************)
MaxTokens == 2

InitTokens ==
    /\ users = {SeedUser(1, "alice", "a@x.io", FALSE, "user"),
                SeedUser(2, "bob", "b@x.io", TRUE, "admin")}
    /\ contacts = {}
    /\ nextContactId = 1
    /\ cache = [e \in CacheKeys |-> {}]
    /\ cloud = {}
    /\ mailq = <<>>
    /\ now = 0
    /\ last = Response("init", <<>>, 0, "", NoBody)
    /\ procs = {}

\* Variant: the token is made without the check of the confirmed flag.
login_makes_token_NoConfirmCheck(username, password) ==
    LET req == [username |-> username, password |-> password]
        found == get_user_by_name(username)
        user == CHOOSE u \in found : TRUE
        access_token == create_access_token(user.email, now)
        body == [access_token |-> access_token, token_type |-> "bearer"]
    IN
    /\ Cardinality(procs) < MaxTokens
    /\ IF found = {} \/ ~verify_password(password, user.password)
       THEN /\ last' = Response("login", req, 401,
                                "Invalid login or password", NoBody)
            /\ procs' = procs
       ELSE /\ procs' = procs \cup {access_token}
            /\ last' = IF ResponseModelAccepts(TokenModel, body)
                       THEN Response("login", req, 200, "", body)
                       ELSE ServerError("login", req)
    /\ UNCHANGED <<cloud, users, contacts, nextContactId, cache, mailq, now>>

\* POST /auth/login, recording the access token that the handler makes once
\* the credentials and the confirmed flag have been accepted.
login_makes_token(username, password) ==
    LET req == [username |-> username, password |-> password]
        found == get_user_by_name(username)
        user == CHOOSE u \in found : TRUE
        access_token == create_access_token(user.email, now)
        body == [access_token |-> access_token, token_type |-> "bearer"]
    IN
    /\ Cardinality(procs) < MaxTokens
    /\ IF found = {} \/ ~verify_password(password, user.password)
       THEN /\ last' = Response("login", req, 401,
                                "Invalid login or password", NoBody)
            /\ procs' = procs
       ELSE IF ~user.confirmed_email
       THEN /\ last' = Response("login", req, 401, "Email not confirmed",
                                NoBody)
            /\ procs' = procs
       ELSE /\ procs' = procs \cup {access_token}
            /\ last' = IF ResponseModelAccepts(TokenModel, body)
                       THEN Response("login", req, 200, "", body)
                       ELSE ServerError("login", req)
    /\ UNCHANGED <<cloud, users, contacts, nextContactId, cache, mailq, now>>

NextTokens ==
    \/ \E username \in Usernames, password \in Passwords :
          login_makes_token(username, password)
    \/ \E token \in procs : get_me(token)
    \/ \E token \in procs, file \in Files, uploaded \in BOOLEAN :
          update_avatar(token, file, uploaded)
    \/ \E e \in Emails : confirmed_email(create_email_token(e, now))
    \/ \E e \in Emails, password \in Passwords :
          post_reset_password(create_email_token(e, now), password)
    \/ Tick

SpecTokens == InitTokens /\ [][NextTokens]_vars

(***************************************************************************)
(* The whole API: the auth, users and contacts routers over one store.     *)
(* bob is registered, confirmed and granted the admin role; alice can      *)
(* still sign up.  The clock stands still; the tokens presented were       *)
(* signed at time 0.                                                       *)
(***************************************************************************)
InitApi ==
    /\ users = {SeedUser(1, "bob", "b@x.io", TRUE, "admin")}
    /\ contacts = {}
    /\ nextContactId = 1
    /\ cache = [e \in CacheKeys |-> {}]
    /\ cloud = {}
    /\ mailq = <<>>
    /\ now = 0
    /\ last = Response("init", <<>>, 0, "", NoBody)
    /\ procs = <<>>

\* The tokens of the confirmation and reset links that are tried.
ApiLinkTokens ==
    {create_email_token(e, 0) : e \in Emails}
    \cup {create_access_token("b@x.io", 0), MalformedToken}

\* The bearer tokens that are tried: the access tokens of bob and of alice
\* (whose account is not in the store until she signs up) and alice's
\* email-scoped token.
ApiBearerTokens ==
    {create_access_token("b@x.io", 0), create_access_token("a@x.io", 0),
     create_email_token("a@x.io", 0)}

\* The bearer tokens of the contact requests that are tried.
ApiContactTokens ==
    {create_access_token("b@x.io", 0), create_email_token("a@x.io", 0)}

\* The contact bodies that are tried, with different emails.
ApiBodies == {b \in ContactBase : b.first_name = "Ann"}

NextApi ==
    \/ \E username \in Usernames : signup(username, "a@x.io", "pw1")
    \/ \E username \in Usernames, password \in Passwords :
          login(username, password)
    \/ \E token \in ApiLinkTokens : confirmed_email(token)
    \/ \E email \in Emails : request_email(email)
    \/ \E token \in ApiLinkTokens : post_reset_password(token, "pw2")
    \/ \E i \in 1..MaxMail, delivered \in BOOLEAN : send_email(i, delivered)
    \/ \E token \in ApiBearerTokens : get_me(token)
    \/ \E token \in ApiBearerTokens, file \in Files :
          update_avatar(token, file, TRUE)
    \/ \E token \in ApiContactTokens, body \in ApiBodies :
          create_contact(token, body)
    \/ \E token \in ApiContactTokens, segment \in PathSegments :
          route_GET(token, segment, 0, 1)
    \/ \E token \in ApiContactTokens, contact_id \in ContactIds,
          body \in ApiBodies :
          update_contact(token, contact_id, body)
    \/ \E token \in ApiContactTokens, contact_id \in ContactIds :
          delete_contact(token, contact_id)

SpecApi == InitApi /\ [][NextApi]_vars

(***************************************************************************)
(* Vocabulary of the properties.                                           *)
(***************************************************************************)
\* The request served by the step is one of the given operations.
Served(ops) == last'.op \in ops

\* A token the service signed, of the given scope, not expired at time t.
ValidToken(tok, scope, t) ==
    tok.sig = "valid" /\ tok.scope = scope /\ tok.exp >= t

RowsWithEmail(rows, email) == {u \in rows : u.email = email}

RowsWithName(rows, username) == {u \in rows : u.username = username}

\* The stored users whose credentials are the given ones.
Authenticates(rows, username, password) ==
    {u \in rows : u.username = username /\ verify_password(password, u.password)}

ResolverOps ==
    {"get_me", "update_avatar", "create_contact", "get_contacts",
     "get_contact_by_id", "update_contact", "delete_contact", "birthdays"}

EmailTokenOps == {"confirmed_email", "reset_password"}

ContactOps == ResolverOps \ {"get_me", "update_avatar"}

\* The user a contact request is authenticated as.
ActorOf(resp) == {u \in users : u.email = resp.req.token.sub}

OwnedBy(rows, owners) == {c \in rows : \E u \in owners : c.user_id = u.id}

\* The contacts a response carries.
Returned(resp) ==
    IF resp.status \notin {200, 201} THEN {}
    ELSE IF resp.op \in {"get_contacts", "birthdays"}
    THEN {resp.body[i] : i \in 1..Len(resp.body)}
    ELSE {resp.body}

DayOf(t) == t \div MinutesPerDay

Max(a, b) == IF a > b THEN a ELSE b

\* C1: a signup whose email or username is already taken is answered 409 and
\* leaves the user rows as they were; emails and usernames stay unique.
C1_SignupConflict ==
    [][ /\ ( /\ Served({"signup"})
             /\ \/ RowsWithEmail(users, last'.req.email) # {}
                \/ RowsWithName(users, last'.req.username) # {} )
           => (last'.status = 409 /\ users' = users)
        /\ \A u, v \in users' :
             (u.email = v.email \/ u.username = v.username) => u = v ]_vars

C1_Witness ==
    /\ last.op = "signup"
    /\ last.status = 409
    /\ last.detail = "User with this name already exist"
    /\ RowsWithName(users, last.req.username) # {}
    /\ RowsWithEmail(users, last.req.email) = {}

\* C2: a login with the right password of an unconfirmed account is answered
\* 401 "Email not confirmed" and its response carries no access token.
C2_UnconfirmedLogin ==
    ( /\ last.op = "login"
      /\ \E u \in Authenticates(users, last.req.username, last.req.password) :
            ~u.confirmed_email )
    => /\ last.status = 401
       /\ last.detail = "Email not confirmed"
       /\ "access_token" \notin DOMAIN last.body

C2_Witness ==
    /\ last.op = "login"
    /\ \E u \in Authenticates(users, last.req.username, last.req.password) :
          ~u.confirmed_email
    /\ last.status = 401

\* C3: a login with the right password of a confirmed account is answered
\* 200 with a body that has an access_token and a token_type.
C3_LoginReturnsToken ==
    ( /\ last.op = "login"
      /\ \E u \in Authenticates(users, last.req.username, last.req.password) :
            u.confirmed_email )
    => /\ last.status = 200
       /\ {"access_token", "token_type"} \subseteq DOMAIN last.body

C5_AlreadyConfirmed ==
    [][ ( /\ Served({"confirmed_email"})
          /\ ValidToken(last'.req.token, "email_token", now)
          /\ \E u \in RowsWithEmail(users, last'.req.token.sub) :
                u.confirmed_email )
        => (last'.status = 409 /\ users' = users) ]_vars

C5_Witness ==
    /\ last.op = "confirmed_email"
    /\ ValidToken(last.req.token, "email_token", now)
    /\ last.status = 409
    /\ \E u \in RowsWithEmail(users, last.req.token.sub) : u.confirmed_email

\* C6: a user row is created unconfirmed, becomes confirmed only by a
\* confirmed_email request with a valid email-scoped token whose subject is
\* the user's email, and never goes back to unconfirmed (nor disappears).
C6_ConfirmationOneWay ==
    [][ /\ \A v \in users' :
             (\A u \in users : u.id # v.id) => ~v.confirmed_email
        /\ \A u \in users : \E v \in users' :
             /\ v.id = u.id
             /\ v.email = u.email
             /\ u.confirmed_email => v.confirmed_email
             /\ (~u.confirmed_email /\ v.confirmed_email)
                => /\ Served({"confirmed_email"})
                   /\ ValidToken(last'.req.token, "email_token", now)
                   /\ last'.req.token.sub = u.email ]_vars

C6_Witness ==
    /\ last.op = "confirmed_email"
    /\ last.status = 200
    /\ \E u \in RowsWithEmail(users, last.req.token.sub) : u.confirmed_email
    /\ \E u \in users : ~u.confirmed_email

\* C7: a contact request authenticated as one user returns only contacts of
\* that user and leaves the contacts of every other user as they were.
C7_ContactIsolation ==
    [][ Served(ContactOps)
        => /\ Returned(last') \subseteq OwnedBy(contacts \cup contacts', ActorOf(last'))
           /\ OwnedBy(contacts', users \ ActorOf(last'))
                = OwnedBy(contacts, users \ ActorOf(last'))
           /\ last'.status = 401 => contacts' = contacts ]_vars

C7_Witness ==
    /\ last.op = "delete_contact"
    /\ last.status = 404
    /\ ActorOf(last) # {}
    /\ \E c \in OwnedBy(contacts, users \ ActorOf(last)) :
          c.id = last.req.contact_id

\* C8: creating a contact whose email another contact of the same user has
\* is answered 409 "Email in use" and leaves the contact rows as they were.
C8_DuplicateContactEmail ==
    [][ ( /\ Served({"create_contact"})
          /\ ValidToken(last'.req.token, "access_token", now)
          /\ RowsWithEmail(OwnedBy(contacts, ActorOf(last')),
                           last'.req.body.email) # {} )
        => /\ last'.status = 409
           /\ last'.detail = "Email in use"
           /\ contacts' = contacts ]_vars

C8_Witness ==
    /\ last.op = "create_contact"
    /\ last.status = 409
    /\ RowsWithEmail(OwnedBy(contacts, ActorOf(last)), last.req.body.email) # {}

\* C9: creating a contact with an email that only contacts of other users
\* have is answered 201 and stores a new row owned by the requesting user.
C9_SameEmailOtherOwner ==
    [][ ( /\ Served({"create_contact"})
          /\ ValidToken(last'.req.token, "access_token", now)
          /\ ActorOf(last') # {}
          /\ RowsWithEmail(OwnedBy(contacts, ActorOf(last')),
                           last'.req.body.email) = {}
          /\ RowsWithEmail(OwnedBy(contacts, users \ ActorOf(last')),
                           last'.req.body.email) # {} )
        => /\ last'.status = 201
           /\ \E c \in OwnedBy(contacts' \ contacts, ActorOf(last')) :
                 c.email = last'.req.body.email ]_vars

\* C10: the birthday query returns only contacts of the requesting user whose
\* birthday is on one of the days today .. today + 7, at most `limit` of them
\* and no more than remain after skipping `skip`.
UpcomingBirthdays(owners, t) ==
    {c \in OwnedBy(contacts, owners) :
        /\ DayOf(c.birthday) >= DayOf(t)
        /\ DayOf(c.birthday) <= DayOf(t) + BirthdayWindowDays}

C10_BirthdayQuery ==
    (last.op = "birthdays" /\ last.status = 200)
    => /\ Returned(last) \subseteq UpcomingBirthdays(ActorOf(last), now)
       /\ Cardinality(Returned(last)) = Len(last.body)
       /\ Len(last.body) <= last.req.limit
       /\ Len(last.body) <=
            Max(0, Cardinality(UpcomingBirthdays(ActorOf(last), now))
                     - last.req.skip)

C10_Witness ==
    /\ last.op = "birthdays"
    /\ last.status = 200
    /\ last.req.skip = 1
    /\ Len(last.body) = 1
    /\ Cardinality(UpcomingBirthdays(ActorOf(last), now)) = 2

\* C11: a GET /contacts/birthdays request of an authenticated user is served
\* by the upcoming-birthdays endpoint and answered 200 with a list of
\* contacts; it is never served by the GET /contacts/{contact_id} endpoint.
C11_BirthdaysRoute ==
    ( /\ last.op \in {"get_contact_by_id", "birthdays"}
      /\ "path" \in DOMAIN last.req
      /\ last.req.path = Word("birthdays")
      /\ ValidToken(last.req.token, "access_token", now)
      /\ ActorOf(last) # {} )
    => /\ last.op = "birthdays"
       /\ last.status = 200
       /\ \A i \in DOMAIN last.body : last.body[i] \in contacts

\* C12: the contact list skips the first `skip` matching contacts of the
\* user and returns at most `limit` contacts, each matching every filter
\* that was given.
C12_ListSkipLimit ==
    (last.op = "get_contacts" /\ last.status = 200)
    => LET f == last.req.filter
           matching == {c \in OwnedBy(contacts, ActorOf(last)) :
                          /\ f.name # NoFilter => c.first_name = f.name
                          /\ f.surname # NoFilter => c.last_name = f.surname
                          /\ f.email # NoFilter => c.email = f.email}
       IN /\ Len(last.body) <= last.req.limit
          /\ Len(last.body) <= Max(Cardinality(matching) - last.req.skip, 0)
          /\ \A i \in DOMAIN last.body : last.body[i] \in matching

\* C13: on PATCH /users/avatar the request of a resolved user is let through
\* if and only if that user's role is admin; otherwise it is answered 403,
\* no file is uploaded and no user's avatar (or any other field) changes.
C13_RoleGate ==
    [][Served({"update_avatar"}) =>
        \A u \in get_current_user(last'.req.token, now).user :
            /\ last'.status # 403 <=> u.role = "admin"
            /\ u.role # "admin" =>
                  /\ last'.status = 403
                  /\ cloud' = cloud
                  /\ users' = users]_vars

\* An ordinary user was refused, after an admin's upload went through.
C13_Witness ==
    /\ last.op = "update_avatar"
    /\ last.status = 403
    /\ \E u \in ActorOf(last) : u.role = "user"
    /\ cloud # {}

\* The last request presented a token.
TokenRequest(ops) == last.op \in ops /\ "token" \in DOMAIN last.req

\* The presented token does not verify: bad signature, not a JWT, or expired.
Undecodable(tok, t) == tok.sig # "valid" \/ tok.exp < t

C15_UndecodableConfirm ==
    [][(Served({"confirmed_email"}) /\ Undecodable(last'.req.token, now))
       => /\ last'.status = 422
          /\ last'.detail = "Invalid token for email verification"
          /\ users' = users]_vars

\* A forged email token naming an unconfirmed account was refused.
C15_Witness ==
    /\ last.op = "confirmed_email"
    /\ last.req.token.sig = "invalid"
    /\ last.req.token.scope = "email_token"
    /\ \E u \in RowsWithEmail(users, last.req.token.sub) : ~u.confirmed_email
    /\ last.status = 422

\* C16: GET confirmed_email with a valid email-scoped token of an existing
\* unconfirmed account is answered 200 "Email confirmed" and leaves the
\* account confirmed; a login with the correct credentials of a confirmed
\* account is not rejected with "Email not confirmed".
C16_ConfirmEnablesLogin ==
    [][ /\ ( /\ Served({"confirmed_email"})
             /\ ValidToken(last'.req.token, "email_token", now)
             /\ \E u \in RowsWithEmail(users, last'.req.token.sub) :
                   ~u.confirmed_email )
           => /\ last'.status = 200
              /\ last'.body = [message |-> "Email confirmed"]
              /\ \A u \in RowsWithEmail(users', last'.req.token.sub) :
                    u.confirmed_email
              /\ RowsWithEmail(users', last'.req.token.sub) # {}
        /\ ( /\ Served({"login"})
             /\ \E u \in Authenticates(users, last'.req.username,
                                       last'.req.password) :
                   u.confirmed_email )
           => last'.detail # "Email not confirmed" ]_vars

\* An account that signed up and was confirmed logs in with its password and
\* is not told "Email not confirmed".
C16_Witness ==
    /\ last.op = "login"
    /\ \E u \in Authenticates(users, last.req.username, last.req.password) :
          u.confirmed_email
    /\ last.detail # "Email not confirmed"

\* C17: a login with an unknown username, or with a password that is not the
\* one the account was given, is answered 401 "Invalid login or password" in
\* both cases, whatever the confirmed flag, and returns no token.
C17_BadCredentials ==
    ( /\ last.op = "login"
      /\ \A u \in RowsWithName(users, last.req.username) :
            u.password # get_password_hash(last.req.password) )
    => /\ last.status = 401
       /\ last.detail = "Invalid login or password"
       /\ "access_token" \notin DOMAIN last.body

\* A confirmed account is given a wrong password.
C17_Witness ==
    /\ last.op = "login"
    /\ \E u \in RowsWithName(users, last.req.username) :
          /\ u.confirmed_email
          /\ u.password # get_password_hash(last.req.password)
    /\ last.status = 401
    /\ last.detail = "Invalid login or password"

\* C18: the current-user resolver, given a valid access token for email e:
\* on a cache hit for user:e it returns the cached record, whatever the store
\* holds, and leaves the cache as it is; on a miss it returns the store's
\* record, if there is one, and leaves under user:e that record with a
\* time-to-live of 900 seconds; if there is none it answers 401 and leaves
\* the cache as it is.
C18_ResolverCache ==
    [][(Served({"get_me"}) /\ ValidToken(last'.req.token, "access_token", now))
       => LET e == last'.req.token.sub
              stored == RowsWithEmail(users, e)
          IN /\ cache[e] # {} =>
                  /\ last'.status = 200
                  /\ \A x \in cache[e] :
                        last'.body = UserResponseBody(pickle_loads(x.value))
                  /\ cache' = cache
             /\ (cache[e] = {} /\ stored # {}) =>
                  /\ last'.status = 200
                  /\ \A u \in stored :
                        /\ last'.body = UserResponseBody(u)
                        /\ \A x \in cache'[e] :
                              /\ pickle_loads(x.value) = u
                              /\ 60 * (x.expire_at - now) = 900
                  /\ cache'[e] # {}
                  /\ \A k \in CacheKeys \ {e} : cache'[k] = cache[k]
             /\ (cache[e] = {} /\ stored = {}) =>
                  /\ last'.status = 401
                  /\ cache' = cache]_vars

\* A hit returned a record that the store no longer holds in that form.
C18_Witness ==
    /\ last.op = "get_me"
    /\ last.status = 200
    /\ \E u \in ActorOf(last) : last.body # UserResponseBody(u)

\* C19: whatever contact create, update and delete requests were served, no
\* two contacts of the same owner have the same email.
C19_UniqueEmailPerOwner ==
    \A c, d \in contacts :
        (c.user_id = d.user_id /\ c.email = d.email) => c = d

\* An update that would have given an owner's second contact the email of
\* their first one was refused.
C19_Witness ==
    /\ last.op = "update_contact"
    /\ last.status = 500
    /\ \E c \in OwnedBy(contacts, ActorOf(last)) :
          /\ c.id # last.req.contact_id
          /\ c.email = last.req.body.email

\* The operations addressed to one contact id.
ByIdOps == {"get_contact_by_id", "update_contact", "delete_contact"}

Ids(rows) == {c.id : c \in rows}

\* C20: a get-by-id, update or delete request for a contact id that the
\* requesting user does not own, or that does not exist, is answered 404 and
\* changes no user and no contact.  A delete answered 204 leaves no contact
\* with that id, and an id that is not in the store never comes back (a new
\* contact takes the next value of the sequence, which is above every id
\* issued so far): so every later get, update or delete of a deleted id by
\* the same user falls under the first sentence and is answered 404.
C20_NotFound ==
    [][ /\ ( /\ Served(ByIdOps)
             /\ last'.status # 401
             /\ \A u \in RowsWithEmail(users, last'.req.token.sub) :
                   \A c \in contacts :
                      ~(c.id = last'.req.contact_id /\ c.user_id = u.id) )
           => /\ last'.status = 404
              /\ last'.detail = "Contact not found"
              /\ contacts' = contacts
              /\ users' = users
        /\ (Served({"delete_contact"}) /\ last'.status = 204)
           => last'.req.contact_id \notin Ids(contacts')
        /\ Ids(contacts') \subseteq Ids(contacts) \cup {nextContactId}
        /\ nextContactId' >= nextContactId
        /\ \A id \in Ids(contacts') : id < nextContactId' ]_vars

\* The first contact ever created has been deleted, and a request for its id
\* is answered 404.
C20_Witness ==
    /\ last.op \in ByIdOps
    /\ last.status = 404
    /\ last.req.contact_id = 1
    /\ nextContactId > 1
    /\ 1 \notin Ids(contacts)

\* C21: POST reset_password with a valid email-scoped token of a confirmed
\* user stores the hash of the submitted password and is answered 200, so that
\* a later login succeeds with the new password and fails with the old one;
\* for an unknown subject the answer is 400, for an unconfirmed account 401,
\* and in both cases no password changes.  (In the seeded store every
\* password is "pw1", so another stored hash is one that a reset wrote.)
C21_ResetPassword ==
    [][ /\ ( /\ Served({"reset_password"})
             /\ ValidToken(last'.req.token, "email_token", now) )
           => LET found == RowsWithEmail(users, last'.req.token.sub)
              IN /\ (\E u \in found : u.confirmed_email) =>
                      /\ last'.status = 200
                      /\ \A u \in RowsWithEmail(users', last'.req.token.sub) :
                            u.password = get_password_hash(last'.req.password)
                 /\ found = {} => (last'.status = 400 /\ users' = users)
                 /\ (\E u \in found : ~u.confirmed_email) =>
                      (last'.status = 401 /\ users' = users)
        /\ Served({"login"}) =>
              \A u \in RowsWithName(users, last'.req.username) :
                 (u.confirmed_email /\ u.password # get_password_hash("pw1"))
                 => IF u.password = get_password_hash(last'.req.password)
                    THEN last'.status = 200
                    ELSE last'.status = 401 ]_vars

\* C22: request_email schedules one confirmation mail if and only if the
\* address is that of an existing unconfirmed user; for a confirmed user it
\* is answered 409 "Your email is already confirmed", for every other address
\* 200 "Check your email for confirmation"; it never changes a user.
C22_RequestEmail ==
    [][Served({"request_email"}) =>
        LET found == RowsWithEmail(users, last'.req.email)
            unconfirmed == {u \in found : ~u.confirmed_email}
        IN /\ users' = users
           /\ IF unconfirmed # {}
              THEN \E u \in unconfirmed :
                      mailq' = Append(mailq, [email |-> u.email,
                                              username |-> u.username,
                                              param |-> FALSE])
              ELSE mailq' = mailq
           /\ IF found # {} /\ unconfirmed = {}
              THEN /\ last'.status = 409
                   /\ last'.detail = "Your email is already confirmed"
              ELSE /\ last'.status = 200
                   /\ last'.body =
                        [message |-> "Check your email for confirmation"] ]_vars

\* A confirmation mail was scheduled for an unconfirmed account on request.
C22_Witness ==
    /\ last.op = "request_email"
    /\ last.status = 200
    /\ \E u \in RowsWithEmail(users, last.req.email) : ~u.confirmed_email
    /\ Len(mailq) > 0
    /\ mailq[Len(mailq)].email = last.req.email

\* C23: a signup answered 201 schedules exactly one confirmation mail for
\* the new user and sends none in the request itself; a rejected signup
\* schedules none; the send is a later step that, delivered or not, leaves
\* the users as they are and takes its task off the schedule for good.
C23_SignupMail ==
    [][ /\ Served({"signup"}) =>
              IF last'.status = 201
              THEN /\ mailq' = Append(mailq, [email |-> last'.req.email,
                                              username |-> last'.req.username,
                                              param |-> FALSE])
                   /\ RowsWithEmail(users', last'.req.email) # {}
              ELSE mailq' = mailq /\ users' = users
        /\ Served({"send_email"}) =>
              /\ users' = users
              /\ Len(mailq') = Len(mailq) - 1
              /\ \A j \in 1..Len(mailq') : \E k \in 1..Len(mailq) :
                    mailq'[j] = mailq[k] ]_vars

\* The confirmation mail of a new account could not be delivered: the
\* account is still there and nothing is scheduled any more.
C23_Witness ==
    /\ last.op = "send_email"
    /\ last.detail = "ConnectionErrors"
    /\ ~last.req.param
    /\ \E u \in RowsWithEmail(users, last.req.email) :
          u.id # 1 /\ ~u.confirmed_email
    /\ mailq = <<>>

\* The session of request r is open: acquired and not closed.
SessionOpen(r) ==
    /\ Len(procs[r].session) > 0
    /\ procs[r].session[Len(procs[r].session)] # "close"

SessionClosed(r) ==
    /\ Len(procs[r].session) > 0
    /\ procs[r].session[Len(procs[r].session)] = "close"

\* C24: every store session acquired for a request is closed once the
\* handler has ended, whatever its outcome, and a session whose request
\* failed with a store-level error is rolled back before it is closed.
C24_SessionClosed ==
    \A r \in 1..MaxRequests :
       /\ (procs[r].pc = "except") ~> SessionClosed(r)
       /\ [](procs[r].pc = "done" => SessionClosed(r))
       /\ []((SessionClosed(r) /\ procs[r].outcome = "store_error")
             => procs[r].session = <<"open", "rollback", "close">>)

\* A request that failed with a store error has had its session rolled back
\* and closed while another request's session is still open.
C24_Witness ==
    \E r, q \in 1..MaxRequests :
       /\ procs[r].outcome = "store_error"
       /\ procs[r].session = <<"open", "rollback", "close">>
       /\ procs[q].pc = "handler"

\* C25: however concurrent resolutions for one email interleave (cache get,
\* store query, cache set and cache expire being separate steps), every
\* request resolves to the same user, and once all of them have finished the
\* cache entry of that email, if there is one, holds a record of the store
\* and has a time-to-live of at most 900 seconds.
C25_ResolverRace ==
    /\ \A p, q \in 1..MaxResolvers :
          (procs[p].pc = "done" /\ procs[q].pc = "done")
          => (procs[p].status = 200 /\ procs[p].user = procs[q].user)
    /\ (\A p \in 1..MaxResolvers : procs[p].pc = "done")
       => \A x \in cache[RaceEmail] :
             /\ pickle_loads(x.value) \in users
             /\ x.expire_at # NoExpiry
             /\ 60 * (x.expire_at - now) <= 900
             /\ x.expire_at > now

\* Two requests both missed the cache, both wrote it, and the entry that is
\* left after the last of them has a time-to-live.
C25_Witness ==
    /\ \A p \in 1..MaxResolvers :
          procs[p].pc = "done" /\ procs[p].missed
    /\ cache[RaceEmail] # {}

\* The finished confirmation requests for account e that were answered s.
Answered(e, s) ==
    {p \in 1..MaxConfirmers :
        procs[p].pc = "done" /\ procs[p].email = e /\ procs[p].status = s}

\* C26: however confirmation requests for one account interleave, at most
\* one of them is answered 200 "Email confirmed" and every other one is
\* answered 409.
C26_ConfirmOnce ==
    \A e \in Emails :
       /\ Cardinality(Answered(e, 200)) <= 1
       /\ \A p \in 1..MaxConfirmers :
             (procs[p].pc = "done" /\ procs[p].email = e)
             => procs[p].status \in {200, 409}

\* C27: however two signup requests with the same email or the same username
\* interleave (existence checks and insert being separate steps), at most
\* one of them is answered 201, and no two user rows have the same email or
\* the same username.
C27_SignupRace ==
    /\ \A p, q \in 1..MaxSigners :
          ( /\ p # q
            /\ procs[p].pc = "done" /\ procs[q].pc = "done"
            /\ \/ procs[p].email = procs[q].email
               \/ procs[p].username = procs[q].username )
          => ~(procs[p].status = 201 /\ procs[q].status = 201)
    /\ \A u, v \in users :
          (u.email = v.email \/ u.username = v.username) => u = v

\* Two requests with the same email both passed the existence checks; one
\* was answered 201, the insert of the other was refused by the store.
C27_Witness ==
    \E p, q \in 1..MaxSigners :
       /\ procs[p].pc = "done" /\ procs[q].pc = "done"
       /\ procs[p].email = procs[q].email
       /\ procs[p].status = 201
       /\ procs[q].status = 500
       /\ Cardinality(users) = 1

\* The endpoints that change a user's row.
UserWriteOps == {"confirmed_email", "reset_password", "update_avatar"}

\* The emails of the rows that the step changes.
Affected == {u.email : u \in users \ users'}

\* C28 (as stated): confirmed_email, reset_password and update_avatar change
\* the store only: the session-cache entry of the affected user is after the
\* request what it was before it.
C28_CacheUntouched ==
    [][Served(UserWriteOps) =>
          \A e \in Affected : cache'[e] = cache[e]]_vars

\* C28 (amended): these requests never put the changed row into the cache:
\* an entry of the affected user that exists stays as it is, and the only
\* entry a request may create is the one its own current-user resolution
\* writes on a miss (update_avatar), which holds the row as it was before
\* the change.  While an entry is there the resolver returns the cached
\* record; it returns the store's row only when there is none.
C28_CacheStale ==
    [][ /\ (Served(UserWriteOps) /\ Affected # {}) =>
              /\ \A e \in Affected :
                    /\ cache[e] # {} => cache'[e] = cache[e]
                    /\ cache[e] = {} =>
                          \A x \in cache'[e] : pickle_loads(x.value) \in users
                    /\ last'.op # "update_avatar" => cache'[e] = cache[e]
              /\ \A k \in CacheKeys \ Affected : cache'[k] = cache[k]
        /\ (Served({"get_me"}) /\ last'.status = 200) =>
              LET e == last'.req.token.sub
              IN IF cache[e] # {}
                 THEN \A x \in cache[e] :
                         last'.body = UserResponseBody(pickle_loads(x.value))
                 ELSE \A u \in RowsWithEmail(users, e) :
                         last'.body = UserResponseBody(u) ]_vars

\* A password was reset while the account's record was cached: the entry
\* still holds the old hash.
C28_Witness ==
    /\ last.op = "reset_password"
    /\ last.status = 200
    /\ \E u \in RowsWithEmail(users, last.req.token.sub) :
          \E x \in cache[u.email] :
             pickle_loads(x.value).password # u.password

\* C29: every access token that login has made has as subject the email of
\* a user that exists and is confirmed, when it is made and in every state
\* reached afterwards; and while such a token is unexpired the current-user
\* resolver resolves it to a user, from the cache or from the store, whose
\* record is confirmed.
C29_LoginTokenSubject ==
    \A token \in procs :
       /\ \E u \in RowsWithEmail(users, token.sub) : u.confirmed_email
       /\ token.exp >= now =>
             LET resolved == get_current_user(token, now).user
             IN /\ resolved # {}
                /\ \A u \in resolved : u.confirmed_email

\* alice, registered unconfirmed, has confirmed and logged in, and the token
\* that login made for her has been resolved from the cache.
C29_Witness ==
    /\ last.op = "get_me"
    /\ last.status = 200
    /\ last.req.token \in procs
    /\ last.req.token.sub = "a@x.io"
    /\ cache["a@x.io"] # {}

\* C30: a request that an auth, contacts or users endpoint answers with a
\* client error (401, 403, 404, 409 or 422) leaves the stored users and the
\* stored contacts exactly as they were before the request.
ClientErrors == {401, 403, 404, 409, 422}

C30_ClientErrorNoChange ==
    [][ last'.status \in ClientErrors =>
           /\ users' = users
           /\ contacts' = contacts ]_vars

\* A contact is stored and a request for another id has been answered 404.
C30_Witness ==
    /\ last.op \in ByIdOps
    /\ last.status = 404
    /\ contacts # {}
    /\ Cardinality(users) = 2

====
